---- MODULE Spec2Model ----
(***************************************************************************)
(* One run of the n8n credential injector, in each of its six variants:    *)
(*   cliBatch  src/injector.js 1-425          flag based, n8n CLI import   *)
(*   cliSingle src/injector.js 427-806        one (USER_ID, PROVIDER) row  *)
(*   http1     src/unnamed/part_000 1-417     flag based, n8n REST API     *)
(*   http2     src/unnamed/part_000 419-826   flag based, n8n REST API     *)
(*   direct    src/unnamed/part_001           flag based, SQL insert       *)
(*   cliQueue  src/unnamed/part_003           per-user queue, n8n CLI      *)
(* The shared store (table user_social_credentials) is the variable db.    *)
(* Every await of the code is one step of the run; what the environment    *)
(* answers (database errors, HTTP responses, subprocess outcomes) is       *)
(* chosen nondeterministically.                                            *)
(***************************************************************************)
EXTENDS Integers, Sequences, FiniteSets, TLC

VARIABLES
    variant,        \* which of the six scripts runs
    CONFIG,         \* the CONFIG object built from process.env
    db,             \* user_social_credentials: row id -> row
    db0,            \* history: the store when the run started
    fetchSnap,      \* history: the store when the fetch query ran
    pc,             \* position of main()
    exitCode,       \* argument of process.exit, -1 while running
    fetched,        \* pendingCredentials (single variant: <<credData>>)
    idx,            \* position of the for-of loop in fetched
    authToken,      \* token returned by authenticateN8N
    payload,        \* credential template / payload of the iteration
    importResult,   \* result of the transport call of the iteration
    caught,         \* message of the error caught by the iteration's catch
    successCount,   \* successCount / totalSuccess
    errorCount,     \* errorCount / totalErrors / failureCount
    nextUuid,       \* number of crypto.randomUUID() calls so far
    trace,          \* history: the I/O calls of the run, in order
    run,            \* number of the run of the script that is executing
    parked          \* the state of an overlapping run that is not executing

vars == <<variant, CONFIG, db, db0, fetchSnap, pc, exitCode, fetched, idx,
          authToken, payload, importResult, caught, successCount, errorCount,
          nextUuid, trace, run, parked>>

------------------------------------------------------------------------------
(* Bounds of the model *)

\* at most this many rows in user_social_credentials
MaxRows == 2
\* at most this many rows when an environment variable is unset
MaxRowsUnset == 1
\* at most this many rows when the script is run more than once
MaxRowsRuns == 1
\* at most this many runs of the script
MaxRuns == 2
\* at most this many times the external requester sets the flag again
MaxReflags == 1
\* at most this many times two overlapping runs take turns
MaxSwitches == 1

------------------------------------------------------------------------------
(* Values *)

NULL == "NULL"

\* JavaScript falsiness of a column value or string (!x)
Falsy(x) == x \in {NULL, ""}

Variants == {"cliBatch", "cliSingle", "http1", "http2", "direct", "cliQueue"}
FlagVariants == {"cliBatch", "http1", "http2", "direct"}
BatchVariants == FlagVariants \cup {"cliQueue"}
CliVariants == {"cliBatch", "cliSingle", "cliQueue"}
HttpVariants == {"http1", "http2"}

ConfigKeys ==
    {"SUPABASE_URL", "SUPABASE_SERVICE_KEY", "N8N_URL", "N8N_ENCRYPTION_KEY",
     "N8N_USER_EMAIL", "N8N_USER_PASSWORD", "USER_ID", "PROVIDER",
     "DB_POSTGRESDB_HOST", "DB_POSTGRESDB_PASSWORD", "DB_POSTGRESDB_DATABASE",
     "DB_POSTGRESDB_USER"}

\* the environment with every variable set
FullConfig ==
    [k \in ConfigKeys |->
        IF k = "USER_ID" THEN "u1" ELSE IF k = "PROVIDER" THEN "google" ELSE "set"]

\* the environments of the model: complete, or one variable unset
ConfigChoices ==
    {FullConfig} \cup
    {[FullConfig EXCEPT ![k] = NULL] : k \in ConfigKeys}

\* no overlapping run
NoRun == [run |-> 0]

------------------------------------------------------------------------------
(* The shared store *)

\* a row of user_social_credentials as an external requester may have left it
Row(id, user, provider, tokenSource, access, refresh, secret, requested, injected, err, credId, requestedAt, createdAt) ==
    [id |-> id, user_id |-> user, provider |-> provider,
     token_source |-> tokenSource, access_token |-> access,
     refresh_token |-> refresh, client_id |-> "cid", client_secret |-> secret,
     injection_requested |-> requested, injected_to_n8n |-> injected,
     injection_error |-> err, n8n_credential_id |-> credId,
     injected_at |-> IF injected THEN "past" ELSE NULL,
     injection_attempted_at |-> IF injected \/ err # NULL THEN "past" ELSE NULL,
     updated_at |-> "past",
     injection_requested_at |-> requestedAt, created_at |-> createdAt]

\* the rows the store is populated from; injection_requested_at 0 stands for
\* a row that was never requested
RowPool ==
    { Row(1, "u1", "google",   "auth0",  "at", "rt", "cs", TRUE,  FALSE, NULL, NULL, 3, 1),
      Row(2, "u1", "google",   NULL,     "at", NULL, "cs", TRUE,  FALSE, NULL, NULL, 1, 2),
      Row(3, "u1", "myspace",  "custom", "at", "rt", "cs", TRUE,  FALSE, NULL, NULL, 2, 3),
      Row(4, "u1", "github",   "",       NULL, "rt", "cs", TRUE,  FALSE, NULL, NULL, 4, 4),
      Row(5, "u2", "google",   "auth0",  "at", "",   "cs", TRUE,  FALSE, NULL, NULL, 5, 5),
      Row(6, "u1", "spotify",  "custom", "at", "rt", "cs", FALSE, FALSE, NULL, NULL, 0, 6),
      Row(7, "u1", "google",   "custom", "at", "rt", "cs", TRUE,  TRUE,  NULL, "old-cred", 7, 7),
      Row(8, "u1", "linkedin", "auth0",  "at", "rt", "cs", TRUE,  FALSE, "old failure", NULL, 8, 8),
      Row(9, "u1", "discord",  "auth0",  "at", "rt", "",   TRUE,  FALSE, NULL, NULL, 9, 9) }

\* the stores of the model: at most n rows of the pool
StoreChoices(n) ==
    { [i \in {r.id : r \in S} |-> CHOOSE r \in S : r.id = i] :
        S \in {T \in SUBSET RowPool : Cardinality(T) <= n} }

\* pending per the data model: requested and not yet injected
Pending(row) == row.injection_requested = TRUE /\ row.injected_to_n8n = FALSE

\* ORDER BY col ASC over the rows S of the table rows
RECURSIVE OrderBy(_, _, _)
OrderBy(rows, S, col) ==
    IF S = {} THEN <<>>
    ELSE LET m == CHOOSE x \in S : \A y \in S :
                      \/ rows[x][col] < rows[y][col]
                      \/ rows[x][col] = rows[y][col] /\ x <= y
         IN  <<m>> \o OrderBy(rows, S \ {m}, col)

------------------------------------------------------------------------------
(* Configuration checks at the top of main() *)

Has(cfg, k) == ~Falsy(cfg[k])

\* mutant of ValidateConfig: only the Supabase settings are checked
ValidateConfigSupabaseOnly(v, cfg) ==
    IF ~Has(cfg, "SUPABASE_URL") \/ ~Has(cfg, "SUPABASE_SERVICE_KEY")
    THEN "Missing Supabase configuration"
    ELSE "ok"

\* 'ok', or the message of the Error the checks throw
ValidateConfig(v, cfg) ==
    CASE v \in {"cliBatch"} ->
           IF ~Has(cfg, "SUPABASE_URL") \/ ~Has(cfg, "SUPABASE_SERVICE_KEY")
           THEN "Missing Supabase configuration"
           ELSE IF ~Has(cfg, "N8N_URL") \/ ~Has(cfg, "N8N_ENCRYPTION_KEY")
           THEN "Missing N8N configuration"
           ELSE "ok"
      [] v \in HttpVariants ->
           IF ~Has(cfg, "SUPABASE_URL") \/ ~Has(cfg, "SUPABASE_SERVICE_KEY")
           THEN "Missing Supabase configuration"
           ELSE IF ~Has(cfg, "N8N_URL") \/ ~Has(cfg, "N8N_USER_EMAIL")
                   \/ ~Has(cfg, "N8N_USER_PASSWORD")
           THEN "Missing N8N configuration"
           ELSE "ok"
      [] v = "cliQueue" ->
           IF ~Has(cfg, "SUPABASE_URL") \/ ~Has(cfg, "SUPABASE_SERVICE_KEY")
           THEN "Missing Supabase configuration"
           ELSE IF ~Has(cfg, "N8N_URL") \/ ~Has(cfg, "N8N_ENCRYPTION_KEY")
           THEN "Missing N8N configuration"
           ELSE IF ~Has(cfg, "USER_ID")
           THEN "Missing USER_ID from template"
           ELSE "ok"
      [] v = "cliSingle" ->
           IF ~Has(cfg, "USER_ID") \/ ~Has(cfg, "PROVIDER")
           THEN "Missing required parameters: USER_ID and PROVIDER must be set"
           ELSE IF ~Has(cfg, "SUPABASE_URL") \/ ~Has(cfg, "SUPABASE_SERVICE_KEY")
           THEN "Missing Supabase configuration"
           ELSE IF ~Has(cfg, "N8N_URL") \/ ~Has(cfg, "N8N_ENCRYPTION_KEY")
           THEN "Missing N8N configuration"
           ELSE "ok"
      [] v = "direct" ->
           IF \E k \in {"SUPABASE_URL", "SUPABASE_SERVICE_KEY", "N8N_ENCRYPTION_KEY",
                        "DB_POSTGRESDB_HOST", "DB_POSTGRESDB_PASSWORD",
                        "DB_POSTGRESDB_DATABASE", "DB_POSTGRESDB_USER"} : ~Has(cfg, k)
           THEN "Missing required environment variables"
           ELSE "ok"

------------------------------------------------------------------------------
(* The fetch queries *)

\* mutant of QueryMatches: the flag-based query does not test injected_to_n8n
QueryMatchesRequestedOnly(v, cfg, row) ==
    CASE v \in FlagVariants -> row.injection_requested = TRUE
      [] v = "cliQueue" ->
           /\ row.user_id = cfg["USER_ID"]
           /\ row.injected_to_n8n = FALSE
           /\ row.injection_error = NULL
      [] v = "cliSingle" ->
           row.user_id = cfg["USER_ID"] /\ row.provider = cfg["PROVIDER"]

\* the WHERE clause of the fetch query of variant v
QueryMatches(v, cfg, row) ==
    CASE v \in FlagVariants ->
           row.injection_requested = TRUE /\ row.injected_to_n8n = FALSE
      [] v = "cliQueue" ->
           /\ row.user_id = cfg["USER_ID"]
           /\ row.injected_to_n8n = FALSE
           /\ row.injection_error = NULL
      [] v = "cliSingle" ->
           row.user_id = cfg["USER_ID"] /\ row.provider = cfg["PROVIDER"]

\* mutant of OrderColumn: every variant orders by created_at
OrderColumnCreatedAt(v) == "created_at"

\* the ORDER BY column of the fetch query of variant v
OrderColumn(v) == IF v = "cliQueue" THEN "created_at" ELSE "injection_requested_at"

\* mutant of QueryResult: rows an overlapping run has fetched are left out
QueryResultUnclaimed(v, cfg, rows) ==
    OrderBy(rows,
            {i \in DOMAIN rows :
                /\ QueryMatches(v, cfg, rows[i])
                /\ parked.run = 0 \/ \A n \in DOMAIN parked.fetched : parked.fetched[n].rid # i},
            OrderColumn(v))

\* the ids of the rows the query returns, in the order it returns them
QueryResult(v, cfg, rows) ==
    OrderBy(rows, {i \in DOMAIN rows : QueryMatches(v, cfg, rows[i])}, OrderColumn(v))

\* the required-field check on a fetched row
Incomplete(row) ==
    Falsy(row.access_token) \/ Falsy(row.client_id) \/ Falsy(row.client_secret)

\* x || dflt
OrElse(x, dflt) == IF Falsy(x) THEN dflt ELSE x

\* the object pushed on validCredentials; rid remembers the row it came from
CredData(v, cfg, row) ==
    CASE v \in FlagVariants ->
           [rid |-> row.id, user_id |-> row.user_id, provider |-> row.provider,
            token_source |-> OrElse(row.token_source, "auth0"),
            access_token |-> row.access_token,
            refresh_token |-> OrElse(row.refresh_token, ""),
            client_id |-> row.client_id, client_secret |-> row.client_secret]
      [] v = "cliSingle" ->
           [rid |-> row.id, user_id |-> cfg["USER_ID"], provider |-> cfg["PROVIDER"],
            token_source |-> row.token_source,
            access_token |-> row.access_token,
            refresh_token |-> OrElse(row.refresh_token, ""),
            client_id |-> row.client_id, client_secret |-> row.client_secret]
      [] v = "cliQueue" ->
           [rid |-> row.id, user_id |-> row.user_id, provider |-> row.provider,
            token_source |-> row.token_source,
            access_token |-> row.access_token,
            refresh_token |-> row.refresh_token,
            client_id |-> row.client_id, client_secret |-> row.client_secret]

\* whether the fetch of variant v drops the row as incomplete
Skipped(v, row) == v # "cliQueue" /\ Incomplete(row)

RECURSIVE ValidCredentials(_, _, _, _)
ValidCredentials(v, cfg, rows, ids) ==
    IF ids = <<>> THEN <<>>
    ELSE LET row == rows[Head(ids)]
             rest == ValidCredentials(v, cfg, rows, Tail(ids))
         IN  IF Skipped(v, row) THEN rest ELSE <<CredData(v, cfg, row)>> \o rest

------------------------------------------------------------------------------
(* Payload builder *)

credentialTypes ==
    [google |-> "googleOAuth2Api", spotify |-> "spotifyOAuth2Api",
     github |-> "githubOAuth2Api", discord |-> "discordOAuth2Api",
     linkedin |-> "linkedInOAuth2Api"]

\* names every object literal inherits from Object.prototype
ObjectProtoKeys == {"constructor", "toString", "valueOf", "hasOwnProperty", "__proto__"}

\* credentialTypes[provider]; NULL stands for undefined
TypeLookup(provider) ==
    IF provider \in DOMAIN credentialTypes THEN credentialTypes[provider]
    ELSE IF provider \in ObjectProtoKeys THEN "[inherited]"
    ELSE NULL

\* crypto.randomUUID(): the n-th call of the run
Uuid(n) == "uuid-" \o ToString(n)

\* mutant of PayloadData: a missing refresh token is passed on as it is
PayloadDataNoDefault(v, cred) ==
    LET six == [clientId |-> cred.client_id, clientSecret |-> cred.client_secret,
                accessToken |-> cred.access_token, refreshToken |-> cred.refresh_token,
                tokenType |-> "Bearer", grantType |-> "authorizationCode"]
    IN  IF v = "direct"
        THEN [c \in DOMAIN six \cup {"oauthTokenData"} |->
                IF c = "oauthTokenData"
                THEN <<cred.access_token, cred.refresh_token, "Bearer">>
                ELSE six[c]]
        ELSE six

\* the data object of the payload
PayloadData(v, cred) ==
    LET six == [clientId |-> cred.client_id, clientSecret |-> cred.client_secret,
                accessToken |-> cred.access_token,
                refreshToken |-> IF v = "cliQueue" THEN OrElse(cred.refresh_token, "")
                                 ELSE cred.refresh_token,
                tokenType |-> "Bearer", grantType |-> "authorizationCode"]
    IN  IF v = "direct"
        THEN [c \in DOMAIN six \cup {"oauthTokenData"} |->
                IF c = "oauthTokenData"
                THEN <<cred.access_token, cred.refresh_token, "Bearer">>
                ELSE six[c]]
        ELSE six

NoPayload == [built |-> FALSE, id |-> NULL, type |-> NULL, data |-> <<>>, message |-> "", iv |-> <<>>, encrypted |-> <<>>]

\* createCredentialTemplate / createCredentialPayload, and the first half of
\* insertCredentialToDatabase: the payload, or the Error thrown
BuildPayload(v, cred, uuid) ==
    IF Falsy(TypeLookup(cred.provider))
    THEN [NoPayload EXCEPT !.message = "Unsupported provider"]
    ELSE [built |-> TRUE, id |-> IF v \in HttpVariants THEN NULL ELSE uuid,
          type |-> TypeLookup(cred.provider), data |-> PayloadData(v, cred),
          message |-> "", iv |-> <<>>, encrypted |-> <<>>]

------------------------------------------------------------------------------
(* N8NCrypto: the encryption of the direct-insert variant. Strings are      *)
(* sequences of characters; the hash, the block cipher and the base64       *)
(* encoder of the crypto library are injective symbolic functions           *)

\* the number of bytes asked of crypto.randomBytes
IvLength == 16

\* the byte strings crypto.randomBytes can return
IVs ==
    { [i \in 1..IvLength |-> 0],
      [i \in 1..IvLength |-> (17 * i + 3) % 256],
      [i \in 1..IvLength |-> 255 - i] }

\* the IV of one call of encrypt: only the direct-insert variant encrypts
IvAnswers(v) == IF v = "direct" THEN IVs ELSE {<<>>}

\* the encryption secrets the direct-insert variant can be configured with
EncryptionKeys == {"set", "k:2"}

HexDigits ==
    <<"0", "1", "2", "3", "4", "5", "6", "7", "8", "9", "a", "b", "c", "d", "e", "f">>

\* Buffer.toString('hex'): two digits a byte, the high one first
ToHex(bytes) ==
    [i \in 1..(2 * Len(bytes)) |->
        LET b == bytes[(i + 1) \div 2]
        IN  IF i % 2 = 1 THEN HexDigits[(b \div 16) + 1] ELSE HexDigits[(b % 16) + 1]]

\* mutant of KeyOf: the secret is used as the key without hashing it
KeyOfRaw(encryptionKey) == encryptionKey

\* crypto.createHash('sha256').update(this.encryptionKey).digest()
KeyOf(encryptionKey) == "sha256(" \o encryptionKey \o ")"

\* JSON.stringify(data)
JsonStringify(data) == "json(" \o ToString(data) \o ")"

\* the bytes the aes-256-cbc cipher produces for the text under key and iv
CipherText(key, iv, text) ==
    "aes-256-cbc(" \o key \o "," \o ToString(iv) \o "," \o text \o ")"

\* cipher.update(text, 'utf8', 'base64') followed by cipher.final('base64'):
\* the two pieces of the base64 encoding of the ciphertext
CipherUpdate(key, iv, text) == "base64-update(" \o CipherText(key, iv, text) \o ")"
CipherFinal(key, iv, text) == "base64-final(" \o CipherText(key, iv, text) \o ")"

\* N8NCrypto(encryptionKey).encrypt(data), iv being what randomBytes returned
Encrypt(encryptionKey, data, iv) ==
    LET key == KeyOf(encryptionKey)
        encrypted == <<CipherUpdate(key, iv, JsonStringify(data))>>
                     \o <<CipherFinal(key, iv, JsonStringify(data))>>
    IN  ToHex(iv) \o <<":">> \o encrypted

------------------------------------------------------------------------------
(* Injection transports *)

\* what the file system and the n8n subprocess can answer: writeFile
\* rejects, the subprocess ends with a non-zero exit code, it is killed at
\* the timeout, or it ends with exit code 0
CliOutcomes == {"write_error", "exec_error", "timeout", "exit0"}
\* what POST /api/v1/credentials can answer
HttpOutcomes == {"network_error", "http_error", "no_id", "created"}
\* what the cipher and the INSERT can answer
DirectOutcomes == {"encrypt_error", "query_error", "no_rows", "inserted"}

TransportOutcomes(v) ==
    IF v \in CliVariants THEN CliOutcomes
    ELSE IF v \in HttpVariants THEN HttpOutcomes ELSE DirectOutcomes

\* error.message of an exception raised by the environment
ErrMessages == {"", "boom"}
\* ids the n8n server answers a create call with
ServerIds == {"n8n-1", "n8n-2"}
\* tokens the n8n server answers a login with
Tokens == {"tok-a", "tok-b"}

\* standard outputs of the import subprocess, as sequences of characters:
\* '', 'IMPORTED', 'Saved Credential', 'error', 'import'
Stdouts ==
    { <<>>,
      <<"I", "M", "P", "O", "R", "T", "E", "D">>,
      <<"S", "a", "v", "e", "d", " ", "C", "r", "e", "d", "e", "n", "t", "i", "a", "l">>,
      <<"e", "r", "r", "o", "r">>,
      <<"i", "m", "p", "o", "r", "t">> }

\* the standard outputs the subprocess of variant v can leave
StdoutsOf(v, outcome) ==
    IF v \in CliVariants /\ outcome = "exit0" THEN Stdouts ELSE {<<>>}

\* whether fs.unlink in the finally block can fail
UnlinkAnswers(v) == IF v \in CliVariants THEN BOOLEAN ELSE {TRUE}

\* the successIndicators of executeN8NImport
successIndicators ==
    { <<"S", "u", "c", "c", "e", "s", "s", "f", "u", "l", "l", "y", " ", "i", "m", "p", "o", "r", "t", "e", "d">>,
      <<"i", "m", "p", "o", "r", "t", "e", "d">>,
      <<"c", "r", "e", "d", "e", "n", "t", "i", "a", "l">>,
      <<"S", "a", "v", "e", "d", " ", "c", "r", "e", "d", "e", "n", "t", "i", "a", "l">> }

UpperCase == <<"A", "B", "C", "D", "E", "F", "G", "H", "I", "J", "K", "L", "M", "N", "O", "P", "Q", "R", "S", "T", "U", "V", "W", "X", "Y", "Z">>
LowerCase == <<"a", "b", "c", "d", "e", "f", "g", "h", "i", "j", "k", "l", "m", "n", "o", "p", "q", "r", "s", "t", "u", "v", "w", "x", "y", "z">>

\* the lower-case letter of each upper-case letter
LowerOf ==
    [c \in {UpperCase[k] : k \in 1..Len(UpperCase)} |->
        LowerCase[CHOOSE k \in 1..Len(UpperCase) : UpperCase[k] = c]]

\* String.prototype.toLowerCase
ToLowerCase(str) ==
    [i \in 1..Len(str) |-> IF str[i] \in DOMAIN LowerOf THEN LowerOf[str[i]] ELSE str[i]]

\* String.prototype.includes
Includes(str, sub) ==
    \E i \in 0..(Len(str) - Len(sub)) : SubSeq(str, i + 1, i + Len(sub)) = sub

\* mutant of IsSuccess: the output is matched as it is
IsSuccessCaseSensitive(stdout) ==
    \E indicator \in successIndicators : Includes(stdout, indicator)

\* successIndicators.some(i => stdout.toLowerCase().includes(i.toLowerCase()))
IsSuccess(stdout) ==
    LET lower == ToLowerCase(stdout)
    IN  \E indicator \in successIndicators : Includes(lower, ToLowerCase(indicator))

\* whether fs.writeFile left the temporary file
TempFileWritten(outcome) == outcome # "write_error"

\* mutant of TempFileLeft: the file is only unlinked before a success return
TempFileLeftNoFinally(outcome, stdout, unlinkOk) ==
    TempFileWritten(outcome) /\ (~unlinkOk \/ ~(outcome = "exit0" /\ IsSuccess(stdout)))

\* whether the temporary file is there when executeN8NImport returns: the
\* finally block unlinks it on every path and swallows a failing unlink
TempFileLeft(outcome, stdout, unlinkOk) == TempFileWritten(outcome) /\ ~unlinkOk

\* what the environment answered during a transport call
Io(outcome, stdout, unlinkOk) ==
    [outcome |-> outcome, stdout |-> stdout, unlinkOk |-> unlinkOk]

\* no INSERT was executed
NoInsert == [executed |-> FALSE, id |-> NULL, type |-> NULL, data |-> <<>>]

NoResult ==
    [success |-> FALSE, credentialId |-> NULL, message |-> "", raised |-> FALSE,
     io |-> Io("", <<>>, TRUE), fileLeft |-> FALSE, inserted |-> NoInsert]

Failure(msg) == [NoResult EXCEPT !.message = msg]
Success(id, msg) == [NoResult EXCEPT !.success = TRUE, !.credentialId = id, !.message = msg]

\* executeN8NImport
CliResult(v, cred, pl, outcome, envMsg, stdout, unlinkOk) ==
    IF v = "cliBatch" /\ cred.user_id = NULL
    THEN [NoResult EXCEPT !.raised = TRUE, !.message = "Cannot read properties of null"]
    ELSE LET res ==
               CASE outcome = "exit0" /\ IsSuccess(stdout) ->
                      Success(pl.id, "Credentials imported successfully via N8N CLI")
                 [] outcome = "exit0" ->
                      Failure("Import failed - no success indicators found in output")
                 [] OTHER -> Failure(OrElse(envMsg, "N8N CLI execution failed"))
         IN  [res EXCEPT !.io = Io(outcome, stdout, unlinkOk),
                         !.fileLeft = TempFileLeft(outcome, stdout, unlinkOk)]

\* createN8NCredential
HttpResult(outcome, envMsg, serverId) ==
    CASE outcome = "created" ->
           Success(serverId, "Credential created successfully via N8N API")
      [] outcome = "no_id" -> Failure("No credential ID returned from N8N API")
      [] outcome = "http_error" -> Failure("N8N API request failed: status")
      [] OTHER -> Failure(OrElse(envMsg, "N8N API request failed"))

\* mutant of InsertValues: the data column is bound to the serialized object
InsertValuesPlain(pl) ==
    [executed |-> TRUE, id |-> pl.id, type |-> pl.type, data |-> <<JsonStringify(pl.data)>>]

\* the values pgClient.query binds to the id, type and data columns of the
\* INSERT INTO credentials_entity
InsertValues(pl) ==
    [executed |-> TRUE, id |-> pl.id, type |-> pl.type, data |-> pl.encrypted]

\* insertCredentialToDatabase
DirectResult(pl, outcome, envMsg) ==
    IF ~pl.built THEN Failure(pl.message)
    ELSE LET res ==
               CASE outcome = "inserted" -> Success(pl.id, "Credential inserted successfully")
                 [] outcome = "no_rows" -> Failure("No rows inserted")
                 [] OTHER -> Failure(envMsg)
         IN  IF outcome = "encrypt_error" THEN res
             ELSE [res EXCEPT !.inserted = InsertValues(pl)]

TransportResult(v, cred, pl, outcome, envMsg, serverId, stdout, unlinkOk) ==
    IF v \in CliVariants THEN CliResult(v, cred, pl, outcome, envMsg, stdout, unlinkOk)
    ELSE IF v \in HttpVariants THEN HttpResult(outcome, envMsg, serverId)
    ELSE DirectResult(pl, outcome, envMsg)

\* whether the transport call got as far as its file, subprocess, HTTP or SQL
\* operation
IoPerformed(v, res, pl, outcome) ==
    CASE v \in CliVariants -> ~res.raised
      [] v \in HttpVariants -> TRUE
      [] OTHER -> pl.built /\ outcome # "encrypt_error"

\* mutant of FailureMessage: the transport's message is thrown as it is
FailureMessageRaw(v, msg) == msg

\* the message of the Error main() throws when the transport reports failure
FailureMessage(v, msg) ==
    OrElse(msg, IF v \in CliVariants THEN "Import failed"
                ELSE IF v \in HttpVariants THEN "API request failed"
                ELSE "Insert failed")

\* the value of the Cookie header's n8n-auth of a create call
CookieToken(token) == token

------------------------------------------------------------------------------
(* Status write-back *)

\* mutant of UpdateColumns: every variant resets injection_requested
UpdateColumnsAllReset(v, credentialId) ==
    {"injected_to_n8n", "injected_at", "injection_error", "injection_attempted_at",
     "updated_at", "injection_requested"}
    \cup (IF Falsy(credentialId) THEN {} ELSE {"n8n_credential_id"})

\* the columns updateData sets
UpdateColumns(v, credentialId) ==
    {"injected_to_n8n", "injected_at", "injection_error", "injection_attempted_at",
     "updated_at"}
    \cup (IF v \in FlagVariants THEN {"injection_requested"} ELSE {})
    \cup (IF Falsy(credentialId) THEN {} ELSE {"n8n_credential_id"})

\* the value updateData gives column c
UpdateValue(c, success, credentialId, message) ==
    CASE c = "injected_to_n8n" -> success
      [] c = "injected_at" -> IF success THEN "now" ELSE NULL
      [] c = "injection_error" -> IF success THEN NULL ELSE message
      [] c = "injection_attempted_at" -> "now"
      [] c = "updated_at" -> "now"
      [] c = "injection_requested" -> FALSE
      [] c = "n8n_credential_id" -> credentialId

\* mutant of UpdateData: the flag is not reset
UpdateDataNoReset(v, success, credentialId, message) ==
    [c \in UpdateColumns(v, credentialId) \ {"injection_requested"} |->
        UpdateValue(c, success, credentialId, message)]

UpdateData(v, success, credentialId, message) ==
    [c \in UpdateColumns(v, credentialId) |->
        UpdateValue(c, success, credentialId, message)]

\* column = value as the store evaluates it: never true of a NULL
SqlEq(col, val) == col # NULL /\ val # NULL /\ col = val

\* the three leading arguments main() passes to updateCredentialStatus
UpdateKey(v, cfg, cred) ==
    CASE v \in FlagVariants ->
           [user_id |-> cred.user_id, provider |-> cred.provider,
            token_source |-> cred.token_source]
      [] v = "cliQueue" ->
           [user_id |-> cfg["USER_ID"], provider |-> cred.provider,
            token_source |-> OrElse(cred.token_source, "auth0")]
      [] v = "cliSingle" ->
           [user_id |-> cfg["USER_ID"], provider |-> cfg["PROVIDER"],
            token_source |-> NULL]

\* the .eq() filters of the update
UpdateMatches(v, key, row) ==
    /\ SqlEq(row.user_id, key.user_id)
    /\ SqlEq(row.provider, key.provider)
    /\ CASE v \in FlagVariants -> SqlEq(row.token_source, key.token_source)
         [] v = "cliQueue" ->
              Falsy(key.token_source) \/ SqlEq(row.token_source, key.token_source)
         [] v = "cliSingle" -> TRUE

\* the store after the update, and the rows it matched
Matched(v, key, rows) == {i \in DOMAIN rows : UpdateMatches(v, key, rows[i])}

ApplyUpdate(row, data) == [c \in DOMAIN row |-> IF c \in DOMAIN data THEN data[c] ELSE row[c]]

Updated(v, key, data, rows) ==
    [i \in DOMAIN rows |->
        IF i \in Matched(v, key, rows) THEN ApplyUpdate(rows[i], data) ELSE rows[i]]

------------------------------------------------------------------------------
(* The run *)

\* an entry of the history of I/O calls
Ev(kind, pos, rid, ok, val, tok, success, rows) ==
    [kind |-> kind, pos |-> pos, rid |-> rid, ok |-> ok, val |-> val, tok |-> tok,
     success |-> success, rows |-> rows]

Init ==
    /\ variant \in Variants
    /\ CONFIG \in ConfigChoices
    /\ db \in StoreChoices(IF CONFIG = FullConfig THEN MaxRows ELSE MaxRowsUnset)
    /\ db0 = db
    /\ fetchSnap = db
    /\ pc = "start"
    /\ exitCode = -1
    /\ fetched = <<>>
    /\ idx = 1
    /\ authToken = NULL
    /\ payload = NoPayload
    /\ importResult = NoResult
    /\ caught = ""
    /\ successCount = 0
    /\ errorCount = 0
    /\ nextUuid = 0
    /\ trace = <<>>
    /\ run = 1
    /\ parked = NoRun

\* process.exit(code): the process ends at the call, so a finally block
\* that encloses the call (the pgClient.end() of the direct-insert variant)
\* is not run
Exit(code) == pc' = "exited" /\ exitCode' = code

\* mutant of CatchTarget: no per-record catch, every throw reaches the outer one
CatchTargetOuter == "fatal"

\* where a throw inside the per-record try block lands
CatchTarget == IF variant = "cliSingle" THEN "fatal" ELSE "wb_error"

\* the configuration checks at the top of main()
Validate ==
    /\ pc = "start"
    /\ LET msg == ValidateConfig(variant, CONFIG)
       IN  IF msg = "ok"
           THEN /\ pc' = IF variant = "direct" THEN "connect" ELSE "fetch"
                /\ caught' = caught
           ELSE /\ pc' = "fatal"
                /\ caught' = msg
    /\ UNCHANGED <<variant, run, parked, CONFIG, db, db0, fetchSnap, exitCode, fetched, idx,
                   authToken, payload, importResult, successCount, errorCount,
                   nextUuid, trace>>

\* connectToDatabase (direct-insert variant)
Connect ==
    /\ pc = "connect"
    /\ \E connected \in BOOLEAN :
         /\ trace' = Append(trace, Ev("connect", 0, 0, connected, NULL, NULL, FALSE, {}))
         /\ IF connected
            THEN pc' = "diagnose" /\ caught' = caught
            ELSE pc' = "fatal" /\ caught' = "connect failed"
    /\ UNCHANGED <<variant, run, parked, CONFIG, db, db0, fetchSnap, exitCode, fetched, idx,
                   authToken, payload, importResult, successCount, errorCount,
                   nextUuid>>

\* the columns runDiagnostics requires of credentials_entity
RequiredColumns == {"id", "name", "type", "data"}

\* what the n8n database answers to the diagnostic queries: whether a query
\* raises, whether credentials_entity exists, and the columns it has
DiagnosticAnswers ==
    [raises : BOOLEAN, exists : BOOLEAN,
     columns : {RequiredColumns \cup {"createdAt", "updatedAt"}}
               \cup {RequiredColumns \ {c} : c \in RequiredColumns}]

\* requiredColumns.filter(col => !columnNames.includes(col))
MissingColumns(columnNames) == RequiredColumns \ columnNames

\* what runDiagnostics logs last
DiagnosticsLog(ans) ==
    IF ans.raises THEN "Diagnostics failed"
    ELSE IF ~ans.exists THEN "Table credentials_entity does not exist"
    ELSE IF MissingColumns(ans.columns) # {} THEN "Missing required columns"
    ELSE "DIAGNOSTICS PASSED"

\* mutant of RunDiagnostics: the required columns are not checked
RunDiagnosticsNoColumnCheck(ans) == ~ans.raises /\ ans.exists

\* runDiagnostics(pgClient)
RunDiagnostics(ans) ==
    IF ans.raises THEN FALSE
    ELSE IF ~ans.exists THEN FALSE
    ELSE IF MissingColumns(ans.columns) # {} THEN FALSE
    ELSE TRUE

\* runDiagnostics and the schemaValid test (direct-insert variant)
Diagnose ==
    /\ pc = "diagnose"
    /\ \E ans \in DiagnosticAnswers :
         LET schemaValid == RunDiagnostics(ans)
         IN  /\ trace' = Append(trace, Ev("diagnose", 0, 0, schemaValid,
                                          DiagnosticsLog(ans), NULL, FALSE, {}))
             /\ IF schemaValid
                THEN pc' = "fetch" /\ exitCode' = exitCode
                ELSE Exit(1)
    /\ UNCHANGED <<variant, run, parked, CONFIG, db, db0, fetchSnap, fetched, idx, authToken,
                   payload, importResult, caught, successCount, errorCount,
                   nextUuid>>

\* mutant of AfterFetch: the HTTP variants do not log in
AfterFetchNoLogin == IF variant \in CliVariants THEN "cli_check" ELSE "loop"

\* the step after a non-empty fetch
AfterFetch ==
    IF variant \in CliVariants THEN "cli_check"
    ELSE IF variant \in HttpVariants THEN "auth" ELSE "loop"

\* fetchPendingCredentials / findPendingCredentials / fetchUserCredentials and
\* the test main() makes on what they return
Fetch ==
    /\ pc = "fetch"
    /\ fetchSnap' = db
    /\ \E queryError \in BOOLEAN :
         LET ids == QueryResult(variant, CONFIG, db)
             list == ValidCredentials(variant, CONFIG, db, ids)
         IN  /\ trace' = Append(trace,
                    Ev("fetch", 0, 0, ~queryError, NULL, NULL, FALSE, {}))
             /\ CASE variant \in FlagVariants ->
                       IF queryError
                       THEN /\ pc' = "fatal" /\ caught' = "Database query failed"
                            /\ UNCHANGED <<fetched, exitCode>>
                       ELSE IF list = <<>>
                       THEN Exit(0) /\ UNCHANGED <<fetched, caught>>
                       ELSE /\ fetched' = list /\ pc' = AfterFetch
                            /\ UNCHANGED <<exitCode, caught>>
                  [] variant = "cliQueue" ->
                       IF queryError \/ list = <<>>
                       THEN Exit(0) /\ UNCHANGED <<fetched, caught>>
                       ELSE /\ fetched' = list /\ pc' = AfterFetch
                            /\ UNCHANGED <<exitCode, caught>>
                  [] variant = "cliSingle" ->
                       IF queryError \/ Len(ids) # 1 \/ list = <<>>
                       THEN /\ pc' = "fatal"
                            /\ caught' = "User credentials not found in database"
                            /\ UNCHANGED <<fetched, exitCode>>
                       ELSE /\ fetched' = list /\ pc' = AfterFetch
                            /\ UNCHANGED <<exitCode, caught>>
    /\ UNCHANGED <<variant, run, parked, CONFIG, db, db0, idx, authToken, payload, importResult,
                   successCount, errorCount, nextUuid>>

\* the n8n --version probe (CLI variants)
CheckCli ==
    /\ pc = "cli_check"
    /\ \E available \in BOOLEAN :
         IF available
         THEN pc' = "loop" /\ caught' = caught
         ELSE pc' = "fatal" /\ caught' = "N8N CLI not available"
    /\ UNCHANGED <<variant, run, parked, CONFIG, db, db0, fetchSnap, exitCode, fetched, idx,
                   authToken, payload, importResult, successCount, errorCount,
                   nextUuid, trace>>

\* what POST /api/v1/login can answer
LoginOutcomes == {"network_error", "http_error", "no_token", "token"}

\* mutant of LoginToken: a failed login is not raised
LoginTokenUnchecked(outcome, tok) == tok

\* what authenticateN8N returns; NULL stands for the Error it throws
LoginToken(outcome, tok) == IF outcome = "token" THEN tok ELSE NULL

\* authenticateN8N (HTTP variants)
Authenticate ==
    /\ pc = "auth"
    /\ \E outcome \in LoginOutcomes, tok \in Tokens :
         LET answered == outcome = "token"
             got == LoginToken(outcome, tok)
         IN  /\ trace' = Append(trace,
                    Ev("login", 0, 0, answered, IF answered THEN tok ELSE NULL, NULL,
                       FALSE, {}))
             /\ IF got # NULL
                THEN /\ authToken' = got
                     /\ pc' = "loop"
                     /\ caught' = caught
                ELSE /\ authToken' = authToken
                     /\ pc' = "fatal"
                     /\ caught' = "Failed to authenticate with N8N"
    /\ UNCHANGED <<variant, run, parked, CONFIG, db, db0, fetchSnap, exitCode, fetched, idx,
                   payload, importResult, successCount, errorCount, nextUuid>>

\* the record of the current iteration
Cred == fetched[idx]

\* mutant of NextRecord: the iteration is run again on the same record
NextRecordRetry ==
    /\ idx' = idx
    /\ pc' = "loop"
    /\ payload' = NoPayload
    /\ importResult' = NoResult
    /\ caught' = ""

\* the end of an iteration of the for-of loop
NextRecord ==
    /\ idx' = idx + 1
    /\ pc' = "loop"
    /\ payload' = NoPayload
    /\ importResult' = NoResult
    /\ caught' = ""

\* top of the try block of an iteration: the payload is built (the
\* direct-insert variant builds it inside its transport)
BuildStep ==
    /\ pc = "loop"
    /\ idx <= Len(fetched)
    /\ IF variant = "direct"
       THEN /\ pc' = "transport"
            /\ UNCHANGED <<payload, caught, nextUuid, trace>>
       ELSE LET pl == BuildPayload(variant, Cred, Uuid(nextUuid + 1))
            IN  /\ nextUuid' = IF variant \in CliVariants THEN nextUuid + 1 ELSE nextUuid
                /\ trace' = Append(trace,
                       Ev("payload", idx, Cred.rid, pl.built, NULL, NULL, FALSE, {}))
                /\ IF pl.built
                   THEN pc' = "transport" /\ payload' = pl /\ caught' = caught
                   ELSE pc' = CatchTarget /\ payload' = payload /\ caught' = pl.message
    /\ UNCHANGED <<variant, run, parked, CONFIG, db, db0, fetchSnap, exitCode, fetched, idx,
                   authToken, importResult, successCount, errorCount>>

\* executeN8NImport / createN8NCredential / insertCredentialToDatabase and the
\* test main() makes on the result
Transport ==
    /\ pc = "transport"
    /\ \E outcome \in TransportOutcomes(variant), envMsg \in ErrMessages,
          serverId \in ServerIds, unlinkOk \in UnlinkAnswers(variant) :
       \E stdout \in StdoutsOf(variant, outcome), iv \in IvAnswers(variant) :
         LET built == BuildPayload(variant, Cred, Uuid(nextUuid + 1))
             pl == IF variant # "direct" THEN payload
                   ELSE IF built.built /\ outcome # "encrypt_error"
                   THEN [built EXCEPT !.iv = iv,
                           !.encrypted = Encrypt(CONFIG["N8N_ENCRYPTION_KEY"],
                                                 built.data, iv)]
                   ELSE built
             res == TransportResult(variant, Cred, pl, outcome, envMsg, serverId,
                                    stdout, unlinkOk)
             tok == IF variant \in HttpVariants THEN CookieToken(authToken) ELSE NULL
         IN  /\ nextUuid' = IF variant = "direct" THEN nextUuid + 1 ELSE nextUuid
             /\ payload' = pl
             /\ trace' = Append(trace,
                    Ev("transport", idx, Cred.rid, res.success, res.credentialId, tok,
                       FALSE, {}))
                    \o IF IoPerformed(variant, res, pl, outcome)
                       THEN <<Ev("io", idx, Cred.rid, res.success, NULL, NULL, FALSE, {})>>
                       ELSE <<>>
             /\ IF res.success
                THEN /\ pc' = "wb_success"
                     /\ importResult' = res
                     /\ caught' = caught
                ELSE /\ pc' = CatchTarget
                     /\ importResult' = res
                     /\ caught' = IF res.raised THEN res.message
                                  ELSE FailureMessage(variant, res.message)
    /\ UNCHANGED <<variant, run, parked, CONFIG, db, db0, fetchSnap, exitCode, fetched, idx,
                   authToken, successCount, errorCount>>

\* updateCredentialStatus(..., true, importResult.credentialId, ...) in the
\* success branch
WriteBackSuccess ==
    /\ pc = "wb_success"
    /\ \E updateError \in BOOLEAN :
         LET key == UpdateKey(variant, CONFIG, Cred)
             data == UpdateData(variant, TRUE, importResult.credentialId,
                                "Credentials injected successfully")
             rows == Matched(variant, key, db)
         IN  IF updateError
             THEN /\ trace' = Append(trace,
                        Ev("writeback", idx, Cred.rid, FALSE, NULL, NULL, TRUE, {}))
                  /\ caught' = "Database update failed"
                  /\ pc' = CatchTarget
                  /\ UNCHANGED <<db, idx, payload, importResult, successCount, exitCode>>
             ELSE /\ trace' = Append(trace,
                        Ev("writeback", idx, Cred.rid, TRUE, importResult.credentialId,
                           NULL, TRUE, rows))
                  /\ db' = Updated(variant, key, data, db)
                  /\ successCount' = successCount + 1
                  /\ IF variant = "cliSingle"
                     THEN Exit(0) /\ UNCHANGED <<idx, payload, importResult, caught>>
                     ELSE NextRecord /\ exitCode' = exitCode
    /\ UNCHANGED <<variant, run, parked, CONFIG, db0, fetchSnap, fetched, authToken, errorCount,
                   nextUuid>>

\* mutant of SwallowsWriteBackError: every variant guards the error write-back
SwallowsWriteBackErrorAlways(v) == TRUE

\* whether the catch block wraps its updateCredentialStatus in a try/catch
SwallowsWriteBackError(v) == v = "http2"

\* the catch block of an iteration (batch variants):
\* updateCredentialStatus(..., false, null, error.message, ...)
WriteBackError ==
    /\ pc = "wb_error"
    /\ \E updateError \in BOOLEAN :
         LET key == UpdateKey(variant, CONFIG, Cred)
             data == UpdateData(variant, FALSE, NULL, caught)
             rows == Matched(variant, key, db)
         IN  IF updateError
             THEN /\ trace' = Append(trace,
                        Ev("writeback", idx, Cred.rid, FALSE, caught, NULL, FALSE, {}))
                  /\ UNCHANGED <<db, errorCount>>
                  /\ IF SwallowsWriteBackError(variant)
                     THEN NextRecord
                     ELSE /\ pc' = "fatal"
                          /\ caught' = "Database update failed"
                          /\ UNCHANGED <<idx, payload, importResult>>
             ELSE /\ trace' = Append(trace,
                        Ev("writeback", idx, Cred.rid, TRUE, caught, NULL, FALSE, rows))
                  /\ db' = Updated(variant, key, data, db)
                  /\ errorCount' = errorCount + 1
                  /\ NextRecord
    /\ UNCHANGED <<variant, run, parked, CONFIG, db0, fetchSnap, exitCode, fetched, authToken,
                   successCount, nextUuid>>

\* mutant of SummaryExit: every variant fails the job when a record failed
SummaryExitOnErrors(v, errors) == IF errors > 0 THEN 1 ELSE 0

\* the exit status after the loop
SummaryExit(v, errors) ==
    IF v \in {"http2", "cliQueue"} /\ errors > 0 THEN 1 ELSE 0

\* the summary after the loop and the process.exit that follows it
Summary ==
    /\ pc = "loop"
    /\ idx > Len(fetched)
    /\ Exit(SummaryExit(variant, errorCount))
    /\ UNCHANGED <<variant, run, parked, CONFIG, db, db0, fetchSnap, fetched, idx, authToken,
                   payload, importResult, caught, successCount, errorCount,
                   nextUuid, trace>>

\* whether the outer catch of the single-record variant can reach the store
CanReportError(cfg) ==
    /\ Has(cfg, "SUPABASE_URL") /\ Has(cfg, "SUPABASE_SERVICE_KEY")
    /\ Has(cfg, "USER_ID") /\ Has(cfg, "PROVIDER")

\* the outer catch of main(): process.exit(1), after the single-record
\* variant has tried to record the error
Fatal ==
    /\ pc = "fatal"
    /\ Exit(1)
    /\ IF variant = "cliSingle" /\ CanReportError(CONFIG)
       THEN \E updateError \in BOOLEAN :
              LET key == UpdateKey(variant, CONFIG, NoResult)
                  data == UpdateData(variant, FALSE, NULL, caught)
                  rows == Matched(variant, key, db)
              IN  IF updateError
                  THEN /\ trace' = Append(trace,
                             Ev("writeback", 0, 0, FALSE, caught, NULL, FALSE, {}))
                       /\ db' = db
                  ELSE /\ trace' = Append(trace,
                             Ev("writeback", 0, 0, TRUE, caught, NULL, FALSE, rows))
                       /\ db' = Updated(variant, key, data, db)
       ELSE UNCHANGED <<db, trace>>
    /\ UNCHANGED <<variant, run, parked, CONFIG, db0, fetchSnap, fetched, idx, authToken, payload,
                   importResult, caught, successCount, errorCount, nextUuid>>

Next ==
    \/ Validate
    \/ Connect
    \/ Diagnose
    \/ Fetch
    \/ CheckCli
    \/ Authenticate
    \/ BuildStep
    \/ Transport
    \/ WriteBackSuccess
    \/ WriteBackError
    \/ Summary
    \/ Fatal

Spec == Init /\ [][Next]_vars

------------------------------------------------------------------------------
(* One iteration on an arbitrary record: the payload builder and the       *)
(* transport of each variant, applied to any record a fetch can return     *)

\* provider strings of the records: the five of the table and 'Google', '',
\* 'constructor', 'myspace'
Providers ==
    {"google", "spotify", "github", "discord", "linkedin",
     "Google", "", "constructor", "myspace"}

\* the records a fetch can hand to the loop; the single-record variant takes
\* user_id and provider from CONFIG
Records(v) ==
    { [rid |-> 0, user_id |-> user, provider |-> provider, token_source |-> "auth0",
       access_token |-> "at", refresh_token |-> refresh, client_id |-> "cid",
       client_secret |-> "cs"] :
        user \in IF v = "cliSingle" THEN {"u1"} ELSE {"u1", NULL},
        provider \in IF v = "cliSingle" THEN Providers \ {""} ELSE Providers,
        refresh \in IF v = "cliQueue" THEN {"rt", "", NULL} ELSE {"rt", ""} }

\* the loop of variant v is about to process a record
InitRecord ==
    /\ variant \in Variants
    /\ \E cred \in Records(variant) :
          /\ fetched = <<cred>>
          /\ \E k \in IF variant = "direct" THEN EncryptionKeys
                      ELSE {FullConfig["N8N_ENCRYPTION_KEY"]} :
                CONFIG = [FullConfig EXCEPT !["PROVIDER"] = cred.provider,
                                            !["N8N_ENCRYPTION_KEY"] = k]
    /\ db = <<>>
    /\ db0 = db
    /\ fetchSnap = db
    /\ pc = "loop"
    /\ exitCode = -1
    /\ idx = 1
    /\ authToken \in IF variant \in HttpVariants THEN Tokens ELSE {NULL}
    /\ payload = NoPayload
    /\ importResult = NoResult
    /\ caught = ""
    /\ successCount = 0
    /\ errorCount = 0
    /\ nextUuid = 0
    /\ trace = <<>>
    /\ run = 1
    /\ parked = NoRun

NextRecordStep ==
    \/ BuildStep
    \/ Transport
    \/ WriteBackSuccess
    \/ WriteBackError

SpecRecord == InitRecord /\ [][NextRecordStep]_vars

------------------------------------------------------------------------------
(* Properties *)

\* positions of the history holding a call of the given kind
Calls(kind) == {n \in 1..Len(trace) : trace[n].kind = kind}

\* the latest call of the run
Last == trace[Len(trace)]

\* the transport call of the iteration at position pos returned success
TransportSucceeded(pos) ==
    \E n \in Calls("transport") : trace[n].pos = pos /\ trace[n].ok

\* the credentialId the transport call of the iteration at pos returned
ReturnedId(pos) ==
    trace[CHOOSE n \in Calls("transport") : trace[n].pos = pos].val

\* C1: in the flag-based batch variants, every record whose iteration of the
\* main loop has finished is stored as no longer pending.
C1_FinishedRecordNotPending ==
    variant \in FlagVariants =>
        \A k \in 1..Len(fetched) : k < idx => ~Pending(db[fetched[k].rid])

\* C2: in the flag-based batch variants, when the transport returned success
\* and the write-back of the success branch is applied, every row it writes
\* has injected_to_n8n = true, injection_requested = false, injection_error =
\* null and n8n_credential_id = the credentialId the transport returned.
C2_SuccessWriteBack ==
    (/\ variant \in FlagVariants
     /\ trace # <<>>
     /\ Last.kind = "writeback" /\ Last.success /\ Last.ok
     /\ TransportSucceeded(Last.pos))
    => \A r \in Last.rows :
          /\ db[r].injected_to_n8n = TRUE
          /\ db[r].injection_requested = FALSE
          /\ db[r].injection_error = NULL
          /\ db[r].n8n_credential_id = ReturnedId(Last.pos)

\* C2 witness: a success write-back that wrote a row
C2_Witness ==
    /\ variant \in FlagVariants
    /\ trace # <<>>
    /\ Last.kind = "writeback" /\ Last.success /\ Last.ok
    /\ TransportSucceeded(Last.pos)
    /\ Last.rows # {}

\* C3: in the flag-based batch variants, when processing a record failed
\* (payload construction threw or the transport returned success = false) and
\* the error write-back is applied, every row it writes has injected_to_n8n =
\* false, injection_requested = false and a non-empty injection_error.
C3_FailureWriteBack ==
    (/\ variant \in FlagVariants
     /\ trace # <<>>
     /\ Last.kind = "writeback" /\ ~Last.success /\ Last.ok
     /\ ~TransportSucceeded(Last.pos))
    => \A r \in Last.rows :
          /\ db[r].injected_to_n8n = FALSE
          /\ db[r].injection_requested = FALSE
          /\ db[r].injection_error \notin {NULL, ""}

\* C3 witness: an error write-back after a failed transport call wrote a row
C3_Witness ==
    /\ variant \in FlagVariants
    /\ trace # <<>>
    /\ Last.kind = "writeback" /\ ~Last.success /\ Last.ok
    /\ \E n \in Calls("transport") : trace[n].pos = Last.pos /\ ~trace[n].ok
    /\ Last.rows # {}

\* the rows the fetch query of the run returned
FetchedRows ==
    IF Calls("fetch") = {} THEN {}
    ELSE {i \in DOMAIN fetchSnap : QueryMatches(variant, CONFIG, fetchSnap[i])}

\* the row was handed to the injection transport
Transported(i) == \E n \in Calls("transport") : trace[n].rid = i

\* C4: in every variant, a fetched row whose access_token, client_id or
\* client_secret is absent or empty is never handed to a transport and is
\* left exactly as it was.
C4_IncompleteRowUntouched ==
    \A i \in FetchedRows :
        (\/ fetchSnap[i].access_token \in {NULL, ""}
         \/ fetchSnap[i].client_id \in {NULL, ""}
         \/ fetchSnap[i].client_secret \in {NULL, ""})
        => ~Transported(i) /\ db[i] = fetchSnap[i]

\* C5: in every variant, a record is handed to a transport only if it was
\* pending (injection_requested and not injected_to_n8n) at fetch time.
C5_OnlyPendingTransported ==
    \A i \in DOMAIN fetchSnap : Transported(i) => Pending(fetchSnap[i])

\* C5 amended: in the four flag-based batch variants a record is handed to a
\* transport only if it was pending at fetch time; in the CLI queue variant
\* only if at fetch time it belonged to USER_ID, was not injected and had no
\* injection_error; in the single-record variant only if it is the row of
\* (USER_ID, PROVIDER).
C5_TransportedMatchedQuery ==
    \A i \in DOMAIN fetchSnap :
        Transported(i) =>
            CASE variant \in FlagVariants ->
                   /\ fetchSnap[i].injection_requested = TRUE
                   /\ fetchSnap[i].injected_to_n8n = FALSE
              [] variant = "cliQueue" ->
                   /\ fetchSnap[i].user_id = CONFIG["USER_ID"]
                   /\ fetchSnap[i].injected_to_n8n = FALSE
                   /\ fetchSnap[i].injection_error = NULL
              [] variant = "cliSingle" ->
                   /\ fetchSnap[i].user_id = CONFIG["USER_ID"]
                   /\ fetchSnap[i].provider = CONFIG["PROVIDER"]

\* C5 witness: a flag-based run handed a record to its transport while the
\* store also held a requested row that was already injected
C5_Witness ==
    /\ variant \in FlagVariants
    /\ \E i \in DOMAIN fetchSnap : Transported(i)
    /\ \E j \in DOMAIN fetchSnap :
          fetchSnap[j].injection_requested /\ fetchSnap[j].injected_to_n8n

\* among the rows S: every transport or write-back call of a record precedes
\* the transport call of any record whose column col is greater, and by then
\* a write-back of the earlier record has been issued
ProcessedInOrderOf(col, S) ==
    \A n \in Calls("transport") :
        trace[n].rid \in S =>
        /\ \A m \in Calls("transport") \cup Calls("writeback") :
              (trace[m].rid \in S
               /\ fetchSnap[trace[m].rid][col] < fetchSnap[trace[n].rid][col])
              => m < n
        /\ \A k \in 1..Len(fetched) :
              (fetched[k].rid \in S
               /\ fetchSnap[fetched[k].rid][col] < fetchSnap[trace[n].rid][col])
              => \E m \in Calls("writeback") : m < n /\ trace[m].rid = fetched[k].rid

\* the rows that were valid and pending when the fetch query ran
ValidPendingRows ==
    {i \in DOMAIN fetchSnap :
        /\ fetchSnap[i].injection_requested /\ ~fetchSnap[i].injected_to_n8n
        /\ fetchSnap[i].access_token \notin {NULL, ""}
        /\ fetchSnap[i].client_id \notin {NULL, ""}
        /\ fetchSnap[i].client_secret \notin {NULL, ""}}

\* C6: in every batch variant the valid pending records are processed one at
\* a time in ascending injection_requested_at order: the transport call and
\* the write-back of the earlier one precede the transport call of the later.
C6_RequestedAtOrder ==
    variant \in BatchVariants =>
        ProcessedInOrderOf("injection_requested_at", ValidPendingRows)

\* C6 amended: the four flag-based batch variants process the valid pending
\* records one at a time in ascending injection_requested_at order; the CLI
\* queue variant processes the records it fetched one at a time in ascending
\* created_at order.
C6_QueryOrder ==
    /\ variant \in FlagVariants =>
          ProcessedInOrderOf("injection_requested_at", ValidPendingRows)
    /\ variant = "cliQueue" => ProcessedInOrderOf("created_at", DOMAIN fetchSnap)

\* C6 witness: a flag-based run made transport calls for two records, the
\* one stored first being the one requested last
C6_Witness ==
    /\ variant \in FlagVariants
    /\ \E m, n \in Calls("transport") :
          /\ m < n
          /\ trace[m].rid > trace[n].rid
          /\ fetchSnap[trace[m].rid].injection_requested_at
                < fetchSnap[trace[n].rid].injection_requested_at

\* the iteration at pos failed in payload construction or in the transport
FailedAt(pos) ==
    \E n \in Calls("payload") \cup Calls("transport") :
        trace[n].pos = pos /\ ~trace[n].ok

\* C7: in every batch variant, after a payload-construction or transport
\* failure on a record, every later record of the fetched list still gets
\* its transport call and its status write-back in the same run.
C7_LaterRecordsProcessed ==
    (variant \in BatchVariants /\ pc = "exited") =>
        \A i, j \in 1..Len(fetched) :
            (i < j /\ FailedAt(i)) =>
                /\ \E n \in Calls("transport") : trace[n].pos = j
                /\ \E m \in Calls("writeback") : trace[m].pos = j /\ trace[m].ok

\* an error write-back raised where main() does not catch it
ErrorWriteBackRaised ==
    /\ variant # "http2"
    /\ \E m \in Calls("writeback") : ~trace[m].success /\ ~trace[m].ok

\* C7 amended: in every batch variant a payload-construction or transport
\* failure on a record does not by itself abort the batch: unless an error
\* write-back raises in a variant other than the second HTTP variant, every
\* later record of the fetched list still has its iteration run in the same
\* run: a status write-back is issued for it, and its transport is called if
\* its provider is supported (in the direct-insert variant always).
C7_LaterRecordsIterated ==
    (variant \in BatchVariants /\ pc = "exited" /\ ~ErrorWriteBackRaised) =>
        \A i, j \in 1..Len(fetched) :
            (i < j /\ FailedAt(i)) =>
                /\ \E m \in Calls("writeback") : trace[m].pos = j
                /\ (fetched[j].provider \in
                        {"google", "spotify", "github", "discord", "linkedin"}
                    \/ variant = "direct")
                   => \E n \in Calls("transport") : trace[n].pos = j

\* C7 witness: a finished batch in which the first record failed and the
\* second had its transport call and an applied write-back
C7_Witness ==
    /\ variant \in BatchVariants /\ pc = "exited"
    /\ Len(fetched) >= 2
    /\ FailedAt(1)
    /\ \E n \in Calls("transport") : trace[n].pos = 2
    /\ \E m \in Calls("writeback") : trace[m].pos = 2 /\ trace[m].ok

\* the settings main() of each variant requires
RequiredKeys ==
    [v \in Variants |->
        CASE v = "cliBatch" ->
               {"SUPABASE_URL", "SUPABASE_SERVICE_KEY", "N8N_URL", "N8N_ENCRYPTION_KEY"}
          [] v \in {"http1", "http2"} ->
               {"SUPABASE_URL", "SUPABASE_SERVICE_KEY", "N8N_URL", "N8N_USER_EMAIL",
                "N8N_USER_PASSWORD"}
          [] v = "cliQueue" ->
               {"SUPABASE_URL", "SUPABASE_SERVICE_KEY", "N8N_URL", "N8N_ENCRYPTION_KEY",
                "USER_ID"}
          [] v = "cliSingle" ->
               {"SUPABASE_URL", "SUPABASE_SERVICE_KEY", "N8N_URL", "N8N_ENCRYPTION_KEY",
                "USER_ID", "PROVIDER"}
          [] v = "direct" ->
               {"SUPABASE_URL", "SUPABASE_SERVICE_KEY", "N8N_ENCRYPTION_KEY",
                "DB_POSTGRESDB_HOST", "DB_POSTGRESDB_PASSWORD",
                "DB_POSTGRESDB_DATABASE", "DB_POSTGRESDB_USER"}]

MissingRequired == \E k \in RequiredKeys[variant] : CONFIG[k] \in {NULL, ""}

\* C8: in every variant, when a required setting is missing the run ends
\* with a non-zero exit status, fetches no record, invokes no transport and
\* writes to no record.
C8_ConfigErrorTouchesNothing ==
    MissingRequired =>
        /\ Calls("fetch") = {} /\ Calls("transport") = {}
        /\ db = db0
        /\ pc = "exited" => exitCode # 0

\* C8 amended: in every variant, when a required setting is missing the run
\* ends with exit status 1, fetches no record and invokes no transport; the
\* five batch variants write to no record, and the single-record CLI variant
\* writes only when SUPABASE_URL, SUPABASE_SERVICE_KEY, USER_ID and PROVIDER
\* are all set, and then only a failure status on the rows of (USER_ID,
\* PROVIDER).
C8_ConfigErrorFetchesNothing ==
    MissingRequired =>
        /\ Calls("fetch") = {} /\ Calls("transport") = {}
        /\ pc = "exited" => exitCode = 1
        /\ variant # "cliSingle" => db = db0
        /\ \A i \in DOMAIN db :
              db[i] # db0[i] =>
                  /\ \A k \in {"SUPABASE_URL", "SUPABASE_SERVICE_KEY", "USER_ID",
                               "PROVIDER"} : CONFIG[k] \notin {NULL, ""}
                  /\ db[i].user_id = CONFIG["USER_ID"]
                  /\ db[i].provider = CONFIG["PROVIDER"]
                  /\ db[i].injected_to_n8n = FALSE
                  /\ db[i].injection_error \notin {NULL, ""}

\* C8 witness: a run that ended on a missing required setting, with rows in
\* the store
C8_Witness ==
    /\ MissingRequired
    /\ pc = "exited" /\ exitCode = 1
    /\ DOMAIN db # {}

\* C9: in both HTTP variants at most one login call is made in a run, and
\* every create-credential call comes after a successful login and carries
\* the token that login returned.
C9_LoginOnceThenCreate ==
    variant \in HttpVariants =>
        /\ Cardinality(Calls("login")) <= 1
        /\ \A c \in Calls("transport") :
              \E l \in Calls("login") :
                  l < c /\ trace[l].ok /\ trace[c].tok = trace[l].val

\* C9 witness: an HTTP run made two create-credential calls
C9_Witness ==
    /\ variant \in HttpVariants
    /\ Cardinality(Calls("transport")) >= 2

\* the login call of the run failed
LoginFailed == \E l \in Calls("login") : ~trace[l].ok

\* C10: in both HTTP variants, when the login call fails the run ends with
\* exit status 1, makes no create-credential call and writes no status back,
\* so every fetched record is still pending.
C10_LoginFailureIsFatal ==
    (variant \in HttpVariants /\ LoginFailed) =>
        /\ pc \in {"fatal", "exited"}
        /\ pc = "exited" => exitCode = 1
        /\ Calls("transport") = {} /\ Calls("writeback") = {}
        /\ db = fetchSnap
        /\ \A k \in 1..Len(fetched) : Pending(db[fetched[k].rid])

\* C10 witness: an HTTP run with fetched records ended after a failed login
C10_Witness ==
    /\ variant \in HttpVariants /\ LoginFailed
    /\ pc = "exited"
    /\ fetched # <<>>

\* the transport of the current iteration has been called and has ended
TransportEnded ==
    /\ pc \in {"wb_success", "wb_error", "fatal"}
    /\ \E n \in Calls("transport") : trace[n].pos = idx

\* C11: for every input record and every failure of the underlying
\* operation, a transport call never raises: when it does not succeed it
\* returns success = false with a non-empty message.
C11_TransportNeverRaises ==
    TransportEnded =>
        /\ ~importResult.raised
        /\ ~importResult.success => importResult.message # ""

\* executeN8NImport of the current iteration has returned after writing its
\* temporary file
ImportReturnedWithFile ==
    /\ variant \in CliVariants
    /\ TransportEnded /\ ~importResult.raised
    /\ importResult.io.outcome \in CliOutcomes \ {"write_error"}

\* C12: in every CLI variant, when executeN8NImport has written its
\* temporary file, the file no longer exists when it returns, whatever the
\* outcome of the import.
C12_TempFileRemoved ==
    ImportReturnedWithFile => ~importResult.fileLeft

\* C12 amended: in every CLI variant, when executeN8NImport has written its
\* temporary file, it tries to unlink the file on every path before it
\* returns, whatever the outcome of the import; the file no longer exists at
\* the return unless that unlink itself failed, which is logged and ignored.
C12_TempFileUnlinkedOnEveryPath ==
    ImportReturnedWithFile =>
        (importResult.fileLeft <=> ~importResult.io.unlinkOk)

\* C12 witness: an import that timed out after writing its file returned
\* with the file removed
C12_Witness ==
    /\ ImportReturnedWithFile
    /\ importResult.io.outcome = "timeout"
    /\ ~importResult.success
    /\ ~importResult.fileLeft

\* the standard outputs of the model that contain, in any letter case, one of
\* 'Successfully imported', 'imported', 'credential', 'Saved credential':
\* 'IMPORTED' and 'Saved Credential'
OutputsWithPhrase ==
    { <<"I", "M", "P", "O", "R", "T", "E", "D">>,
      <<"S", "a", "v", "e", "d", " ", "C", "r", "e", "d", "e", "n", "t", "i", "a", "l">> }

\* executeN8NImport returns success exactly for exit code 0 within the time
\* bound and an output with a success phrase
ImportClassified ==
    (variant \in CliVariants /\ TransportEnded) =>
        /\ ~importResult.raised
        /\ importResult.success <=>
              /\ importResult.io.outcome = "exit0"
              /\ importResult.io.stdout \in OutputsWithPhrase

\* the transport call of the iteration at pos returned success = false
TransportFailed(pos) ==
    \E n \in Calls("transport") : trace[n].pos = pos /\ ~trace[n].ok

\* the iteration at pos has begun
IterationBegan(pos) ==
    \E n \in Calls("payload") \cup Calls("transport") : trace[n].pos = pos

\* C13: in every CLI variant executeN8NImport returns success = true if and
\* only if the subprocess ends with exit code 0 within the time bound and
\* its output contains, case-insensitively, one of the success phrases; in
\* every other case it returns success = false for that record and the batch
\* goes on with the next record.
C13_ImportSuccessRule ==
    /\ ImportClassified
    /\ (variant \in {"cliBatch", "cliQueue"} /\ pc = "exited") =>
          \A i, j \in 1..Len(fetched) :
              (TransportFailed(i) /\ j = i + 1) => IterationBegan(j)

\* C13 amended: the same rule for success = true; in every other case
\* executeN8NImport returns success = false for that record, and in the two
\* batch CLI variants the loop goes on with the next record unless the
\* error-status write-back of the failed record raises, which ends the run.
C13_ImportSuccessRuleUnlessWriteBackRaises ==
    /\ ImportClassified
    /\ (variant \in {"cliBatch", "cliQueue"} /\ pc = "exited"
        /\ ~ErrorWriteBackRaised) =>
          \A i, j \in 1..Len(fetched) :
              (TransportFailed(i) /\ j = i + 1) => IterationBegan(j)

\* C13 witness: in a batch CLI variant the import of the first record failed
\* and the import of the second record has now timed out
C13_Witness ==
    /\ variant \in {"cliBatch", "cliQueue"}
    /\ idx = 2 /\ TransportEnded
    /\ TransportFailed(1)
    /\ importResult.io.outcome = "timeout" /\ ~importResult.success

\* the type of each supported provider
ProviderTypes ==
    [google |-> "googleOAuth2Api", spotify |-> "spotifyOAuth2Api",
     github |-> "githubOAuth2Api", discord |-> "discordOAuth2Api",
     linkedin |-> "linkedInOAuth2Api"]

\* the payload builder of the current iteration has run
BuilderRan ==
    \E n \in (IF variant = "direct" THEN Calls("transport") ELSE Calls("payload")) :
        trace[n].pos = idx

\* the message of the error the payload builder ended with
BuilderError == IF variant = "direct" THEN importResult.message ELSE caught

\* something of the current record went to the target system: the import,
\* the create call, or the INSERT of a built payload
SentToTarget ==
    /\ \E n \in Calls("transport") : trace[n].pos = idx
    /\ variant = "direct" => payload.built

\* C14: for every provider string, the payload builder gives the five
\* supported providers their type of the table, and for every other string
\* fails with 'Unsupported provider', builds no payload and sends nothing.
C14_ProviderTable ==
    (BuilderRan /\ pc # "loop") =>
        IF Cred.provider \in DOMAIN ProviderTypes
        THEN payload.built /\ payload.type = ProviderTypes[Cred.provider]
        ELSE /\ ~payload.built
             /\ BuilderError = "Unsupported provider"
             /\ ~SentToTarget

\* the first iteration of the loop has ended, normally or by a throw that
\* left the loop
FirstIterationEnded ==
    \/ idx > 1
    \/ pc = "fatal" /\ IterationBegan(1)

\* C15: in every batch variant a valid pending record whose provider is not
\* one of the five supported ones ends its iteration with a write-back of
\* injected_to_n8n = false and an injection_error containing 'Unsupported
\* provider', and no transport I/O is performed for it.
C15_UnsupportedProviderWrittenBack ==
    (/\ variant \in BatchVariants
     /\ FirstIterationEnded
     /\ fetched[1].provider \notin DOMAIN ProviderTypes)
    => /\ \E m \in Calls("writeback") :
             /\ trace[m].pos = 1 /\ ~trace[m].success
             /\ trace[m].val = "Unsupported provider"
       /\ ~\E n \in Calls("io") : trace[n].pos = 1

\* the six fields of the data object of the current record
SixFields ==
    [clientId |-> Cred.client_id, clientSecret |-> Cred.client_secret,
     accessToken |-> Cred.access_token,
     refreshToken |-> IF Cred.refresh_token \in {NULL, ""} THEN ""
                      ELSE Cred.refresh_token,
     tokenType |-> "Bearer", grantType |-> "authorizationCode"]

\* a payload of the current record has been built
PayloadBuilt == BuilderRan /\ pc # "loop" /\ payload.built

\* C16: in every variant the data object delivered for a valid record has
\* exactly the six fields clientId, clientSecret, accessToken, refreshToken
\* ('' when the record has none), tokenType 'Bearer' and grantType
\* 'authorizationCode'.
C16_ExactlySixFields ==
    PayloadBuilt => payload.data = SixFields

\* C16 amended: in every variant but the direct-insert one the data object
\* has exactly these six fields; in the direct-insert variant it has these
\* six fields and a seventh, oauthTokenData, repeating access_token,
\* refresh_token and token_type 'Bearer'.
C16_SixFieldsAndOauthTokenData ==
    PayloadBuilt =>
        /\ \A c \in DOMAIN SixFields : payload.data[c] = SixFields[c]
        /\ DOMAIN payload.data =
              IF variant = "direct" THEN DOMAIN SixFields \cup {"oauthTokenData"}
              ELSE DOMAIN SixFields
        /\ variant = "direct" =>
              payload.data["oauthTokenData"] =
                  <<Cred.access_token, Cred.refresh_token, "Bearer">>

\* C16 witness: the CLI queue variant built the payload of a record without
\* a refresh token
C16_Witness ==
    /\ PayloadBuilt
    /\ variant = "cliQueue"
    /\ Cred.refresh_token = NULL

------------------------------------------------------------------------------
(* N8NCrypto.encrypt *)

\* the value of a hexadecimal digit
DigitValue(c) == CHOOSE n \in 0..15 : HexDigits[n + 1] = c

\* the bytes a string of hexadecimal digits stands for
FromHex(hex) ==
    [i \in 1..(Len(hex) \div 2) |->
        16 * DigitValue(hex[2 * i - 1]) + DigitValue(hex[2 * i])]

\* the position of the first ':' of a string, 0 when it has none
FirstColon(str) ==
    IF \E i \in 1..Len(str) : str[i] = ":"
    THEN CHOOSE i \in 1..Len(str) : str[i] = ":" /\ \A j \in 1..(i - 1) : str[j] # ":"
    ELSE 0

\* decrypting out the standard way (split at the first ':', hex IV, base64
\* ciphertext, AES-256-CBC under the SHA-256 of the secret k) yields text:
\* the cipher being a bijection for a key and an IV, this is to say that the
\* part after the ':' is the encoding of the ciphertext of text
DecryptsTo(k, out, text) ==
    LET at == FirstColon(out)
        ivHex == SubSeq(out, 1, at - 1)
        rest == SubSeq(out, at + 1, Len(out))
        key == "sha256(" \o k \o ")"
    IN  /\ at > 0
        /\ Len(ivHex) % 2 = 0
        /\ \A i \in 1..Len(ivHex) : \E n \in 1..16 : HexDigits[n] = ivHex[i]
        /\ rest = <<CipherUpdate(key, FromHex(ivHex), text),
                    CipherFinal(key, FromHex(ivHex), text)>>

\* the direct-insert transport has encrypted the data object
Encrypted == variant = "direct" /\ payload.encrypted # <<>>

------------------------------------------------------------------------------
(* No retry within a run *)

\* the transport invocations of the run for the fetched record at position pos
TransportCallsAt(pos) == {n \in Calls("transport") : trace[n].pos = pos}

\* the transport invocations of the run for the store row with identity rid
TransportCallsFor(rid) == {n \in Calls("transport") : trace[n].rid = rid}

\* C18: in every variant and every run, each fetched record is the subject of
\* at most one transport invocation: no position of the fetched list and no
\* row identity occurs in two transport calls of the run
C18_AtMostOneTransportPerRecord ==
    /\ \A pos \in 1..Len(fetched) : Cardinality(TransportCallsAt(pos)) <= 1
    /\ \A n \in Calls("transport") : Cardinality(TransportCallsFor(trace[n].rid)) = 1

\* a finished run over two records, the transport of the first of which
\* failed: each was handed to the transport exactly once
C18_Witness ==
    /\ pc = "exited"
    /\ Len(fetched) >= 2
    /\ \A pos \in 1..2 : Cardinality(TransportCallsAt(pos)) = 1
    /\ \E n \in TransportCallsAt(1) : ~trace[n].ok

------------------------------------------------------------------------------
(* Several runs of a batch variant on the same store: the job is started   *)
(* again after it ended, or while it is still running                      *)

\* the variables of a run that are its own: everything but the store, the
\* environment, the UUID source and the history
RunState ==
    [run |-> run, pc |-> pc, exitCode |-> exitCode, fetched |-> fetched, idx |-> idx,
     authToken |-> authToken, payload |-> payload, importResult |-> importResult,
     caught |-> caught, successCount |-> successCount, errorCount |-> errorCount,
     fetchSnap |-> fetchSnap]

\* the state of run n when its process starts
FreshRun(n) ==
    [run |-> n, pc |-> "start", exitCode |-> -1, fetched |-> <<>>, idx |-> 1,
     authToken |-> NULL, payload |-> NoPayload, importResult |-> NoResult,
     caught |-> "", successCount |-> 0, errorCount |-> 0, fetchSnap |-> db]

\* the run with state st executes next
Resume(st) ==
    /\ run' = st.run
    /\ pc' = st.pc
    /\ exitCode' = st.exitCode
    /\ fetched' = st.fetched
    /\ idx' = st.idx
    /\ authToken' = st.authToken
    /\ payload' = st.payload
    /\ importResult' = st.importResult
    /\ caught' = st.caught
    /\ successCount' = st.successCount
    /\ errorCount' = st.errorCount
    /\ fetchSnap' = st.fetchSnap

\* the number of runs started so far
RunsStarted == 1 + Cardinality(Calls("run"))

\* the job is started again after the previous run has ended
NextRun ==
    /\ pc = "exited"
    /\ parked = NoRun
    /\ RunsStarted < MaxRuns
    /\ Resume(FreshRun(RunsStarted + 1))
    /\ trace' = Append(trace, Ev("run", 0, 0, TRUE, RunsStarted + 1, NULL, FALSE, {}))
    /\ UNCHANGED <<variant, CONFIG, db, db0, nextUuid, parked>>

\* the external requester sets injection_requested of a row to true again
Reflag ==
    /\ Cardinality(Calls("reflag")) < MaxReflags
    /\ \E i \in DOMAIN db :
          /\ db[i].injection_requested # TRUE
          /\ db' = [db EXCEPT ![i].injection_requested = TRUE]
          /\ trace' = Append(trace, Ev("reflag", 0, i, TRUE, NULL, NULL, FALSE, {}))
    /\ UNCHANGED <<variant, run, parked, CONFIG, db0, fetchSnap, pc, exitCode, fetched,
                   idx, authToken, payload, importResult, caught, successCount,
                   errorCount, nextUuid>>

\* the job is started while the previous run, having fetched, is about to
\* call its transport: main() takes no lock and marks no row before it
\* processes it
OverlappingRun ==
    /\ pc = "transport"
    /\ parked = NoRun
    /\ RunsStarted < MaxRuns
    /\ parked' = RunState
    /\ Resume(FreshRun(RunsStarted + 1))
    /\ trace' = Append(trace, Ev("run", 0, 0, TRUE, RunsStarted + 1, NULL, FALSE, {}))
    /\ UNCHANGED <<variant, CONFIG, db, db0, nextUuid>>

\* the two processes take turns: the executing one is awaiting a write-back
\* or has ended
Switch ==
    /\ parked # NoRun
    /\ pc \in {"wb_success", "wb_error", "exited"}
    /\ Cardinality(Calls("switch")) < MaxSwitches
    /\ parked' = RunState
    /\ Resume(parked)
    /\ trace' = Append(trace, Ev("switch", 0, 0, TRUE, parked.run, NULL, FALSE, {}))
    /\ UNCHANGED <<variant, CONFIG, db, db0, nextUuid>>

\* the rows of the stores the script is run on more than once: a complete
\* pending row, a pending row without token_source, a row not requested
RunsRowPool == {r \in RowPool : r.id \in {1, 2, 6}}

\* the stores of at most MaxRowsRuns of these rows
RunsStores ==
    { [i \in {r.id : r \in S} |-> CHOOSE r \in S : r.id = i] :
        S \in {T \in SUBSET RunsRowPool : Cardinality(T) <= MaxRowsRuns} }

\* a batch variant with its environment complete is started on a store
InitRuns ==
    /\ variant \in BatchVariants
    /\ CONFIG = FullConfig
    /\ db \in RunsStores
    /\ db0 = db
    /\ fetchSnap = db
    /\ pc = "start"
    /\ exitCode = -1
    /\ fetched = <<>>
    /\ idx = 1
    /\ authToken = NULL
    /\ payload = NoPayload
    /\ importResult = NoResult
    /\ caught = ""
    /\ successCount = 0
    /\ errorCount = 0
    /\ nextUuid = 0
    /\ trace = <<>>
    /\ run = 1
    /\ parked = NoRun

NextRuns ==
    \/ Next
    \/ NextRun
    \/ Reflag

\* runs one after another, the requester acting in between
SpecRuns == InitRuns /\ [][NextRuns]_vars

\* overlapping runs are followed on the stores in which the fetch query of
\* the variant matches at most one row: the record both runs are about
InitOverlap ==
    /\ InitRuns
    /\ Cardinality({i \in DOMAIN db : QueryMatches(variant, CONFIG, db[i])}) <= 1

NextOverlap ==
    \/ Next
    \/ OverlappingRun
    \/ Switch

\* two runs overlapping
SpecOverlap == InitOverlap /\ [][NextOverlap]_vars

\* the run that made the call at position n of the history
RunOf(n) ==
    LET marks == {m \in 1..(n - 1) : trace[m].kind \in {"run", "switch"}}
    IN  IF marks = {} THEN 1
        ELSE trace[CHOOSE m \in marks : \A k \in marks : k <= m].val

\* the requester set the flag of row rid again between positions m and n
ReflaggedBetween(rid, m, n) ==
    \E k \in Calls("reflag") : m < k /\ k < n /\ trace[k].rid = rid

\* C19: across any sequence of runs of a flag-based batch variant, once a run
\* has invoked the transport for a record, no later run invokes a transport
\* for it unless the external requester has set injection_requested to true
\* again in between; in particular one request never yields two credentials
C19_NoReinjectionWithoutRequest ==
    variant \in FlagVariants =>
        \A m, n \in Calls("transport") :
            (trace[m].rid = trace[n].rid /\ RunOf(m) < RunOf(n))
                => ReflaggedBetween(trace[m].rid, m, n)

\* a run has just fetched, its query having succeeded, while an overlapping
\* run that is not executing holds the records it fetched
FetchedWhileOverlapping ==
    /\ parked # NoRun
    /\ parked.fetched # <<>>
    /\ Last.kind = "fetch"
    /\ Last.ok

\* C20: nothing keeps two runs of a batch variant from overlapping on a
\* record: a run that fetches while another run is in progress is handed
\* exactly the records that run was handed from the same store contents, so
\* that both can invoke the transport for the same pending record
C20_FetchIgnoresOverlappingRun ==
    (FetchedWhileOverlapping /\ fetchSnap = parked.fetchSnap)
        => fetched = parked.fetched

\* both of two overlapping runs have fetched the same pending record and
\* both have invoked the transport for it, each with success
C20_Witness ==
    \E m, n \in Calls("transport") :
        /\ RunOf(m) = 1 /\ RunOf(n) = 2
        /\ trace[m].rid = trace[n].rid
        /\ Pending(db0[trace[m].rid])
        /\ trace[m].ok /\ trace[n].ok
        /\ parked # NoRun
        /\ \E k \in 1..Len(fetched) : fetched[k].rid = trace[m].rid
        /\ \E k \in 1..Len(parked.fetched) : parked.fetched[k].rid = trace[m].rid

------------------------------------------------------------------------------
(* Exit status *)

\* the variants whose summary always exits 0
ExitZeroVariants == {"cliBatch", "http1", "direct"}

\* the record loop of the run ran to its end and the process has exited
LoopRanToEnd == pc = "exited" /\ fetched # <<>> /\ idx > Len(fetched)

\* C21: in the CLI batch variant, the first HTTP variant and the direct-insert
\* variant the exit status is 0 whenever the record loop runs to its end,
\* and exit status 1 occurs only for errors outside per-record injection:
\* no iteration of the loop has begun in a run that exits 1
C21_ExitOneOnlyOutsideLoop ==
    variant \in ExitZeroVariants =>
        /\ LoopRanToEnd => exitCode = 0
        /\ (pc = "exited" /\ exitCode = 1) => ~IterationBegan(1)

\* C21 amended: in these three variants the exit status is 0 whenever the
\* record loop runs to its end, whatever the number of failed records; exit
\* status 1 occurs only for an error before the loop or when the
\* error-status write-back of a record raises
C21_ExitOneOutsideLoopOrWriteBack ==
    variant \in ExitZeroVariants =>
        /\ LoopRanToEnd => exitCode = 0
        /\ (pc = "exited" /\ exitCode = 1) => (~IterationBegan(1) \/ ErrorWriteBackRaised)

\* a run of one of the three variants whose loop ran to its end with a
\* failed record and exit status 0
C21_Witness ==
    /\ variant \in ExitZeroVariants
    /\ LoopRanToEnd
    /\ errorCount > 0
    /\ exitCode = 0

\* the variants whose summary exits 1 when a failure was counted
ExitOneVariants == {"http2", "cliQueue"}

\* C22: in the second HTTP variant and the CLI queue variant the exit status
\* is 1 whenever at least one record's injection failed during the run, and
\* 0 only when every processed record succeeded
C22_ExitOneWhenAnyRecordFailed ==
    (variant \in ExitOneVariants /\ pc = "exited") =>
        /\ (\E pos \in 1..Len(fetched) : FailedAt(pos)) => exitCode = 1
        /\ exitCode = 0 => \A pos \in 1..Len(fetched) : ~FailedAt(pos)

------------------------------------------------------------------------------
(* The flag reset of the write-back *)

\* the latest call is a status write-back the store applied
WriteBackApplied == trace # <<>> /\ Last.kind = "writeback" /\ Last.ok

\* the store row of the record a write-back of the loop is about
ProcessedRow == IF Last.rid \in DOMAIN db THEN {Last.rid} ELSE {}

------------------------------------------------------------------------------
(* Failing write-backs *)

\* the error-status write-backs of the run that raised
FailedErrorWriteBacks == {m \in Calls("writeback") : ~trace[m].success /\ ~trace[m].ok}

\* C24: when the error-status write-back of a record raises, the second HTTP
\* variant catches it inside the loop and goes on with the next record,
\* whereas the CLI batch variant, the first HTTP variant and the
\* direct-insert variant end the run with exit status 1 and no later record
\* gets a transport call or a write-back; in no batch variant does any other
\* per-record error leave the record loop
C24_WriteBackErrorPropagation ==
    /\ variant = "http2" =>
          /\ pc # "fatal" \/ ~IterationBegan(1)
          /\ \A m \in FailedErrorWriteBacks :
                /\ m = Len(trace) => (pc \in {"loop", "exited"} /\ idx = trace[m].pos + 1)
                /\ (pc = "exited" /\ trace[m].pos < Len(fetched))
                      => IterationBegan(trace[m].pos + 1)
    /\ variant \in ExitZeroVariants =>
          \A m \in FailedErrorWriteBacks :
             /\ m = Len(trace)
             /\ pc \in {"fatal", "exited"}
             /\ pc = "exited" => exitCode = 1
             /\ \A n \in Calls("transport") \cup Calls("writeback") :
                   trace[n].pos <= trace[m].pos
    /\ (variant \in BatchVariants /\ IterationBegan(1)
        /\ (pc = "fatal" \/ (pc = "exited" /\ idx <= Len(fetched))))
          => ErrorWriteBackRaised

\* the second HTTP variant went on to the second record after the error
\* write-back of the first raised
C24_Witness ==
    /\ variant = "http2"
    /\ \E m \in FailedErrorWriteBacks :
          /\ trace[m].pos = 1
          /\ \E n \in Calls("transport") : trace[n].pos = 2 /\ m < n

------------------------------------------------------------------------------
(* The INSERT of the direct-insert variant *)

\* insertCredentialToDatabase has returned for the record of the iteration
InsertReturned ==
    /\ variant = "direct"
    /\ trace # <<>>
    /\ \E n \in Calls("transport") : trace[n].pos = idx

\* the INSERT of the iteration and the values it bound
Inserted == importResult.inserted

\* the cipher raised in the iteration: the payload was built and no
\* ciphertext was produced
EncryptionRaised == InsertReturned /\ payload.built /\ payload.encrypted = <<>>

\* C25: in the direct-insert variant the INSERT for a record is executed only
\* after the payload has been encrypted, the value bound to the data column
\* is exactly the string encrypt returned (it decrypts to the payload and is
\* not the serialized payload); if encryption raises, no INSERT is executed
\* and the transport result is success = false; on success the returned
\* credentialId is the id that was inserted
C25_InsertOfEncryptedPayload ==
    InsertReturned =>
        /\ Inserted.executed =>
              /\ payload.built /\ payload.encrypted # <<>>
              /\ Inserted.data = payload.encrypted
              /\ DecryptsTo(CONFIG["N8N_ENCRYPTION_KEY"], Inserted.data,
                            JsonStringify(payload.data))
              /\ Inserted.data # <<JsonStringify(payload.data)>>
        /\ Inserted.executed <=> (\E n \in Calls("io") : trace[n].pos = idx)
        /\ EncryptionRaised => (~Inserted.executed /\ ~importResult.success)
        /\ importResult.success =>
              (Inserted.executed /\ importResult.credentialId = Inserted.id)

\* a successful INSERT of an encrypted payload
C25_Witness ==
    /\ InsertReturned
    /\ importResult.success
    /\ Inserted.executed
    /\ Inserted.data = payload.encrypted
    /\ payload.encrypted # <<>>

------------------------------------------------------------------------------
(* The rows a write-back changes *)

\* C26: in every variant an applied status write-back changes exactly one
\* row of the store, the row of the processed record, identified by its
\* (user_id, provider, token_source), and leaves every other row unchanged
C26_WriteBackChangesOneRow ==
    WriteBackApplied =>
        /\ Cardinality(Last.rows) = 1
        /\ Last.rid \in DOMAIN db => Last.rows = {Last.rid}

------------------------------------------------------------------------------
(* Failure write-backs after a successful transport *)

\* C27: in every batch variant, if the transport call for a record returned
\* success = true, the run issues no failure write-back (injected_to_n8n =
\* false with an injection_error) for that record, even when the success
\* write-back itself fails
C27_NoFailureWriteBackAfterSuccess ==
    variant \in BatchVariants =>
        \A n \in Calls("transport") :
            trace[n].ok =>
                ~\E m \in Calls("writeback") :
                    trace[m].pos = trace[n].pos /\ ~trace[m].success

(***************************************************************************)
(* The success and failure counters                                        *)
(***************************************************************************)
\* the number of records whose iteration has finished
FinishedIterations == IF fetched = <<>> THEN 0 ELSE idx - 1

\* C28: in every batch variant, at every point of the record loop the
\* success counter plus the failure counter equals the number of records
\* whose iteration has finished, and at the summary their sum equals the
\* number of fetched records
C28_CountersCoverFinishedIterations ==
    variant \in BatchVariants =>
        /\ pc = "loop" => successCount + errorCount = FinishedIterations
        /\ LoopRanToEnd => successCount + errorCount = Len(fetched)

(***************************************************************************)
(* The PostgreSQL connection of the direct-insert variant                  *)
(***************************************************************************)
\* connectToDatabase returned a client
ConnectionOpened == \E n \in Calls("connect") : trace[n].ok

\* C29: in the direct-insert variant, on every path on which the PostgreSQL
\* connection was opened, pgClient.end() is called before the process
\* terminates
C29_ConnectionClosedBeforeExit ==
    (variant = "direct" /\ pc = "exited" /\ ConnectionOpened)
        => Calls("end") # {}

(***************************************************************************)
(* The order of the steps of the direct-insert variant                     *)
(***************************************************************************)
\* the calls of a run in the order environment check, connection,
\* diagnostics, fetch, injection: no call of a later step precedes a call
\* of an earlier one, and each step needs the one before it
StepRank(kind) ==
    CASE kind = "connect" -> 1
      [] kind = "diagnose" -> 2
      [] kind = "fetch" -> 3
      [] OTHER -> 4

StepsInOrder ==
    /\ \A m, n \in 1..Len(trace) : m < n => StepRank(trace[m].kind) <= StepRank(trace[n].kind)
    /\ trace # <<>> =>
          /\ ValidateConfig(variant, CONFIG) = "ok"
          /\ trace[1].kind = "connect"
    /\ \A n \in 2..Len(trace) :
          StepRank(trace[n].kind) <= StepRank(trace[n - 1].kind) + 1
    /\ \A n \in 2..Len(trace) :
          StepRank(trace[n].kind) > StepRank(trace[n - 1].kind) => trace[n - 1].ok

\* runDiagnostics returned false: credentials_entity is missing, a required
\* column is missing, or a diagnostic query raised
DiagnosticsFailed ==
    \E n \in Calls("diagnose") :
        trace[n].val \in {"Table credentials_entity does not exist",
                          "Missing required columns", "Diagnostics failed"}

\* C30: in the direct-insert variant the steps run in the order environment
\* check, database connection, schema diagnostics, fetch, inject; when
\* runDiagnostics returns false the run ends with exit status 1 and no
\* record is fetched, no INSERT is executed and no status is written back
C30_DiagnosticsGateTheRun ==
    variant = "direct" =>
        /\ StepsInOrder
        /\ DiagnosticsFailed =>
              /\ pc = "exited" /\ exitCode = 1
              /\ Calls("fetch") = {} /\ Calls("io") = {} /\ Calls("writeback") = {}
              /\ db = db0

C30_Witness ==
    /\ variant = "direct"
    /\ DiagnosticsFailed
    /\ pc = "exited" /\ exitCode = 1
    /\ \E n \in Calls("connect") : trace[n].ok
    /\ \E i \in DOMAIN db : db[i].injection_requested = TRUE

==============================================================================
